---- MODULE Spec2Model ----
(***************************************************************************)
(* vite.config.ts: the default export is defineConfig(async () => ({...})).*)
(* The model is the JavaScript execution of that async factory: every call *)
(* creates a promise, runs the body (an object literal whose first         *)
(* property calls vue()) to completion on the single JS thread, and        *)
(* settles the promise; the host then awaits the promise.  Objects live in *)
(* a heap and are held by reference, so aliasing and mutation are visible. *)
(***************************************************************************)
EXTENDS Naturals, Sequences, FiniteSets, TLC

\* ---------------------------------------------------------------- bounds
MaxCalls == 2

Calls == 1..MaxCalls

\* What the host may pass: nothing, or one environment-mode descriptor.
Commands == {"serve", "build"}
Modes == {"development", "production"}
ArgLists == {<<>>} \cup {<<[command |-> c, mode |-> m]>> : c \in Commands, m \in Modes}

\* What a failing vue() may throw.
Errors == {"PluginInitError", "PluginOptionsError"}

\* ------------------------------------------------------- program literals
Port == 1420

ClearScreenFlagged == TRUE

\* line 11: clearScreen: false
ClearScreen == FALSE

StrictPortOff == FALSE

\* line 14: strictPort: true
StrictPort == TRUE

IgnoredPatternsWide == <<"**/src-tauri/**", "**/node_modules/**">>

\* line 17: ignored: ["**/src-tauri/**"]
IgnoredPatterns == <<"**/src-tauri/**">>

VueArgsForwarded(a) == a

\* line 8: vue() -- the plugin constructor is called with no parameters,
\* whatever the factory itself was called with.
VueArgs(a) == <<>>

\* The opaque descriptor a successful plugin construction yields.
VueDescriptor(vargs) == [ctor |-> "vue", args |-> vargs]

PortByCommand(a) == IF a # <<>> /\ a[1].command = "build" THEN Port + 1 ELSE Port

\* line 13: port: 1420 -- the factory takes no parameter (line 6), so the
\* value cannot depend on the arguments a.
ServerPort(a) == Port

VARIABLES
    pc,        \* pc[i]: position of invocation i in the factory body
    args,      \* args[i]: the argument list invocation i was called with
    promise,   \* promise[i]: the promise the async function returned
    exc,       \* exc[i]: the exception in flight in invocation i
    obj,       \* obj[i]: address of the object literal under construction (0: none)
    heap,      \* the JS heap: a sequence of cells, address = index
    observed,  \* observed[i]: what the awaiting host has received
    vueCalls,  \* vueCalls[i]: how often invocation i called vue()
    settles,   \* settles[i]: how often promise i was settled
    io         \* I/O operations performed by the factory

vars == <<pc, args, promise, exc, obj, heap, observed, vueCalls, settles, io>>

\* No exception in flight / no rejection reason.
NoError == "none"

Unborn == [state |-> "none", value |-> 0, reason |-> NoError]
Pending == [state |-> "pending", value |-> 0, reason |-> NoError]
Fulfilled(a) == [state |-> "fulfilled", value |-> a, reason |-> NoError]
Rejected(e) == [state |-> "rejected", value |-> 0, reason |-> e]

Unobserved == [kind |-> "none", value |-> 0, reason |-> NoError]

EmptyRecord == [f \in {} |-> FALSE]

\* A heap cell: who allocated it, what it is, and its contents.
Cell(i, k, v) == [owner |-> i, kind |-> k, val |-> v]

Alloc(h, c) == [heap |-> Append(h, c), addr |-> Len(h) + 1]

\* Fields that hold a reference to another heap cell.
RefFields == {"plugins", "server", "watch", "ignored"}

\* The value a reference denotes, by structure: what deep equality compares.
RECURSIVE Deep(_, _)
Deep(h, a) ==
    LET c == h[a]
    IN  IF c.kind = "refarray" THEN [k \in 1..Len(c.val) |-> Deep(h, c.val[k])]
        ELSE IF c.kind = "strarray" THEN c.val
        ELSE [f \in DOMAIN c.val |-> IF f \in RefFields THEN Deep(h, c.val[f]) ELSE c.val[f]]

\* Exactly one invocation can be inside the body: the body has no await, so
\* it runs to completion before anything else runs on the thread.
InBody(i) == pc[i] \in {"plugins", "clearScreen", "server", "return", "throw"}
Idle == \A i \in Calls : ~InBody(i)

Init ==
    /\ pc = [i \in Calls |-> "idle"]
    /\ args = [i \in Calls |-> <<>>]
    /\ promise = [i \in Calls |-> Unborn]
    /\ exc = [i \in Calls |-> NoError]
    /\ obj = [i \in Calls |-> 0]
    /\ heap = <<>>
    /\ observed = [i \in Calls |-> Unobserved]
    /\ vueCalls = [i \in Calls |-> 0]
    /\ settles = [i \in Calls |-> 0]
    /\ io = <<>>

InvokeEager(i, a) ==
    /\ Idle
    /\ pc[i] = "idle"
    /\ \A j \in Calls : j < i => pc[j] # "idle"
    /\ LET r == Alloc(heap, Cell(i, "object", EmptyRecord))
       IN  /\ heap' = r.heap
           /\ obj' = [obj EXCEPT ![i] = r.addr]
           /\ promise' = [promise EXCEPT ![i] = Fulfilled(r.addr)]
    /\ args' = [args EXCEPT ![i] = a]
    /\ pc' = [pc EXCEPT ![i] = "plugins"]
    /\ UNCHANGED <<exc, observed, vueCalls, settles, io>>

\* line 6: the host calls the async arrow function.  A promise is created,
\* the object literal is allocated and the body starts.
Invoke(i, a) ==
    /\ Idle
    /\ pc[i] = "idle"
    /\ \A j \in Calls : j < i => pc[j] # "idle"
    /\ LET r == Alloc(heap, Cell(i, "object", EmptyRecord))
       IN  /\ heap' = r.heap
           /\ obj' = [obj EXCEPT ![i] = r.addr]
    /\ args' = [args EXCEPT ![i] = a]
    /\ promise' = [promise EXCEPT ![i] = Pending]
    /\ pc' = [pc EXCEPT ![i] = "plugins"]
    /\ UNCHANGED <<exc, observed, vueCalls, settles, io>>

\* lines 7-9: plugins: [vue()] with vue() having returned.
PluginsHeap(h, i, a) ==
    LET d == Alloc(h, Cell(i, "object", VueDescriptor(VueArgs(a))))
        p == Alloc(d.heap, Cell(i, "refarray", <<d.addr>>))
    IN  [p.heap EXCEPT ![obj[i]].val = [plugins |-> p.addr]]

\* line 8: vue() returns a descriptor.
VueReturns(i) ==
    /\ pc[i] = "plugins"
    /\ vueCalls' = [vueCalls EXCEPT ![i] = @ + 1]
    /\ heap' = PluginsHeap(heap, i, args[i])
    /\ pc' = [pc EXCEPT ![i] = "clearScreen"]
    /\ UNCHANGED <<args, promise, exc, obj, observed, settles, io>>

\* line 8: vue() throws; nothing in the body catches, so the exception
\* unwinds the object literal and the function body.
VueThrows(i, e) ==
    /\ pc[i] = "plugins"
    /\ vueCalls' = [vueCalls EXCEPT ![i] = @ + 1]
    /\ exc' = [exc EXCEPT ![i] = e]
    /\ pc' = [pc EXCEPT ![i] = "throw"]
    /\ UNCHANGED <<args, promise, obj, heap, observed, settles, io>>

EvalClearScreenLogged(i) ==
    /\ pc[i] = "clearScreen"
    /\ heap' = [heap EXCEPT ![obj[i]].val = @ @@ [clearScreen |-> ClearScreen]]
    /\ pc' = [pc EXCEPT ![i] = "server"]
    /\ io' = Append(io, "config")
    /\ UNCHANGED <<args, promise, exc, obj, observed, vueCalls, settles>>

\* line 11: clearScreen: false
EvalClearScreen(i) ==
    /\ pc[i] = "clearScreen"
    /\ heap' = [heap EXCEPT ![obj[i]].val = @ @@ [clearScreen |-> ClearScreen]]
    /\ pc' = [pc EXCEPT ![i] = "server"]
    /\ UNCHANGED <<args, promise, exc, obj, observed, vueCalls, settles, io>>

IsIgnoredArray(h, a) == h[a].kind = "strarray"

AllocIgnoredShared(h, i) ==
    IF \E a \in 1..Len(h) : IsIgnoredArray(h, a)
    THEN LET a == CHOOSE b \in 1..Len(h) : IsIgnoredArray(h, b)
         IN  [heap |-> [h EXCEPT ![a].val = @ \o IgnoredPatterns], addr |-> a]
    ELSE Alloc(h, Cell(i, "strarray", IgnoredPatterns))

\* line 17: the array literal allocates a fresh array on every evaluation.
AllocIgnored(h, i) == Alloc(h, Cell(i, "strarray", IgnoredPatterns))

ServerHeapCounting(h, i, a) ==
    LET g == AllocIgnored(h, i)
        w == Alloc(g.heap, Cell(i, "object", [ignored |-> g.addr]))
        s == Alloc(w.heap, Cell(i, "object",
                 [port |-> ServerPort(a) + (i - 1), strictPort |-> StrictPort, watch |-> w.addr]))
    IN  [s.heap EXCEPT ![obj[i]].val = @ @@ [server |-> s.addr]]

\* lines 12-19: server: {port, strictPort, watch: {ignored: [...]}}
ServerHeap(h, i, a) ==
    LET g == AllocIgnored(h, i)
        w == Alloc(g.heap, Cell(i, "object", [ignored |-> g.addr]))
        s == Alloc(w.heap, Cell(i, "object",
                 [port |-> ServerPort(a), strictPort |-> StrictPort, watch |-> w.addr]))
    IN  [s.heap EXCEPT ![obj[i]].val = @ @@ [server |-> s.addr]]

EvalServer(i) ==
    /\ pc[i] = "server"
    /\ heap' = ServerHeap(heap, i, args[i])
    /\ pc' = [pc EXCEPT ![i] = "return"]
    /\ UNCHANGED <<args, promise, exc, obj, observed, vueCalls, settles, io>>

\* lines 6, 20: the arrow body's value resolves the promise.  The value is a
\* plain object (no then), so the promise is fulfilled with it.
Return(i) ==
    /\ pc[i] = "return"
    /\ promise' = [promise EXCEPT ![i] = Fulfilled(obj[i])]
    /\ settles' = [settles EXCEPT ![i] = @ + 1]
    /\ pc' = [pc EXCEPT ![i] = "done"]
    /\ UNCHANGED <<args, exc, obj, heap, observed, vueCalls, io>>

RaiseFallback(i) ==
    /\ pc[i] = "throw"
    /\ promise' = [promise EXCEPT ![i] = Fulfilled(obj[i])]
    /\ settles' = [settles EXCEPT ![i] = @ + 1]
    /\ pc' = [pc EXCEPT ![i] = "done"]
    /\ UNCHANGED <<args, exc, obj, heap, observed, vueCalls, io>>

\* line 6: an exception leaving an async function rejects its promise with
\* the thrown value.
Raise(i) ==
    /\ pc[i] = "throw"
    /\ promise' = [promise EXCEPT ![i] = Rejected(exc[i])]
    /\ settles' = [settles EXCEPT ![i] = @ + 1]
    /\ pc' = [pc EXCEPT ![i] = "done"]
    /\ UNCHANGED <<args, exc, obj, heap, observed, vueCalls, io>>

\* The host's await of the returned promise: it stays suspended while the
\* promise is pending and receives the settled outcome once.
Await(i) ==
    /\ Idle
    /\ observed[i].kind = "none"
    /\ promise[i].state \in {"fulfilled", "rejected"}
    /\ observed' = [observed EXCEPT ![i] =
            IF promise[i].state = "fulfilled"
            THEN [kind |-> "value", value |-> promise[i].value, reason |-> NoError]
            ELSE [kind |-> "error", value |-> 0, reason |-> promise[i].reason]]
    /\ UNCHANGED <<pc, args, promise, exc, obj, heap, vueCalls, settles, io>>

BodyStep(i) ==
    \/ VueReturns(i)
    \/ \E e \in Errors : VueThrows(i, e)
    \/ EvalClearScreen(i)
    \/ EvalServer(i)
    \/ Return(i)
    \/ Raise(i)

Next ==
    \/ \E i \in Calls, a \in ArgLists : Invoke(i, a)
    \/ \E i \in Calls : VueReturns(i)
    \/ \E i \in Calls, e \in Errors : VueThrows(i, e)
    \/ \E i \in Calls : EvalClearScreen(i)
    \/ \E i \in Calls : EvalServer(i)
    \/ \E i \in Calls : Return(i)
    \/ \E i \in Calls : Raise(i)
    \/ \E i \in Calls : Await(i)

Spec == Init /\ [][Next]_vars

\* Run to completion: once the body has started, the JS thread executes it
\* to its return or throw; the host's calls and awaits carry no fairness.
FairSpec == Spec /\ \A i \in Calls : WF_vars(BodyStep(i))

\* ------------------------------------------------------------ the claims

Resolved(i) == promise[i].state = "fulfilled"
Failed(i) == promise[i].state = "rejected"
Settled(i) == Resolved(i) \/ Failed(i)

\* The Configuration Object invocation i resolved to, by structure.
Config(i) == Deep(heap, promise[i].value)

\* The object of the specification's scenario, written out.
ExpectedDescriptor == [ctor |-> "vue", args |-> <<>>]
ExpectedConfig ==
    [plugins |-> <<ExpectedDescriptor>>,
     clearScreen |-> FALSE,
     server |-> [port |-> 1420, strictPort |-> TRUE,
                 watch |-> [ignored |-> <<"**/src-tauri/**">>]]]

\* C1: an invocation with no arguments that resolves, resolves to exactly
\* {plugins: [descriptor], clearScreen: false, server: {port: 1420,
\* strictPort: true, watch: {ignored: ["**/src-tauri/**"]}}}, with no other
\* field at any level.
C1_NoArgResult ==
    \A i \in Calls : (Resolved(i) /\ args[i] = <<>>) => Config(i) = ExpectedConfig

C1_Witness == \E i \in Calls : Resolved(i) /\ args[i] = <<>> /\ observed[i].kind = "value"

\* C2: every invocation eventually settles, and one whose plugin
\* construction succeeded eventually resolves to an object with
\* server.port = 1420 and server.strictPort = true.
C2_EventuallyResolves ==
    \A i \in Calls :
        /\ (promise[i].state = "pending") ~> Settled(i)
        /\ (pc[i] = "clearScreen") ~>
               (/\ Resolved(i)
                /\ Config(i).server.port = 1420
                /\ Config(i).server.strictPort = TRUE)

C2_Witness ==
    \E i \in Calls : Resolved(i) /\ vueCalls[i] = 1 /\ Config(i).server.port = 1420

\* C3: in every produced Configuration Object the plugins sequence has
\* length 1 and its element is the descriptor vue() built with no parameters.
C3_OnePlugin ==
    \A i \in Calls : Resolved(i) =>
        /\ Len(Config(i).plugins) = 1
        /\ Config(i).plugins[1] = ExpectedDescriptor

C3_Witness ==
    \E i \in Calls : Resolved(i) /\ args[i] # <<>> /\ Len(Config(i).plugins) = 1

\* C4: in every produced Configuration Object server.watch.ignored holds the
\* one pattern "**/src-tauri/**" and nothing else.
C4_IgnoredExact ==
    \A i \in Calls : Resolved(i) =>
        Config(i).server.watch.ignored = <<"**/src-tauri/**">>

C4_Witness ==
    \E i \in Calls : Resolved(i) /\ Len(Config(i).server.watch.ignored) = 1

\* C5: any two invocations that resolved, in whatever order and however many
\* came before, resolved to structurally equal objects.
C5_Idempotent ==
    \A i \in Calls, j \in Calls : (Resolved(i) /\ Resolved(j)) => Config(i) = Config(j)

C5_Witness ==
    \E i \in Calls, j \in Calls :
        /\ i < j /\ Resolved(i) /\ Resolved(j)
        /\ promise[i].value # promise[j].value

\* C6: when vue() throws, the invocation calls it once only, never resolves,
\* and completes rejected with the very value thrown, which is what the
\* awaiting caller receives.
C6_FailurePropagates ==
    \A i \in Calls :
        /\ vueCalls[i] <= 1
        /\ exc[i] # NoError =>
              /\ ~Resolved(i)
              /\ pc[i] = "done" => (Failed(i) /\ promise[i].reason = exc[i])
              /\ observed[i].kind \in {"none", "error"}
              /\ observed[i].kind = "error" => observed[i].reason = exc[i]

C6_Witness ==
    \E i \in Calls : exc[i] \in Errors /\ observed[i].kind = "error"

ConfigFields == {"plugins", "clearScreen", "server"}
Complete(a) == DOMAIN heap[a].val = ConfigFields

\* C7: each invocation's promise is settled exactly once and never changes
\* afterwards; the host receives an outcome only after settlement, and a
\* value it receives is the fully constructed object.
C7_SingleShot ==
    /\ [](\A i \in Calls :
            /\ settles[i] = (IF pc[i] = "done" THEN 1 ELSE 0)
            /\ Settled(i) <=> pc[i] = "done"
            /\ Resolved(i) => Complete(promise[i].value)
            /\ observed[i].kind = "value" =>
                   (Resolved(i) /\ observed[i].value = promise[i].value)
            /\ observed[i].kind = "error" =>
                   (Failed(i) /\ observed[i].reason = promise[i].reason))
    /\ [][\A i \in Calls : Settled(i) => promise'[i] = promise[i]]_vars

C7_Witness ==
    \E i \in Calls, j \in Calls :
        /\ observed[i].kind = "value" /\ settles[i] = 1
        /\ observed[j].kind = "error" /\ settles[j] = 1

\* C8: a step of an invocation performs no I/O and changes nothing that
\* belongs to another invocation: existing heap cells of the others, their
\* promises and their inputs stay as they were; the only other change in
\* the system is the delivery of an outcome to the awaiting host.
C8_NoSideEffects ==
    [][/\ io' = io
       /\ Len(heap') >= Len(heap)
       /\ \A a \in 1..Len(heap) :
              pc'[heap[a].owner] = pc[heap[a].owner] => heap'[a] = heap[a]
       /\ \A j \in Calls : pc'[j] = pc[j] =>
              /\ promise'[j] = promise[j]
              /\ args'[j] = args[j]
              /\ vueCalls'[j] = vueCalls[j]
              /\ settles'[j] = settles[j]
       /\ \A j \in Calls : observed'[j] # observed[j] => observed[j].kind = "none"]_vars

C8_Witness ==
    \E i \in Calls, j \in Calls : Resolved(i) /\ Failed(j) /\ i < j /\ io = <<>>

\* C9: once the host holds a Configuration Object, no later step changes
\* any of its fields at any depth, nor which object the host holds.
C9_Immutable ==
    [][\A i \in Calls : observed[i].kind = "value" =>
          /\ observed'[i] = observed[i]
          /\ Deep(heap', observed[i].value) = Deep(heap, observed[i].value)]_vars

C9_Witness ==
    \E i \in Calls, j \in Calls :
        /\ i < j /\ observed[i].kind = "value" /\ pc[j] = "done"
        /\ Deep(heap, observed[i].value) = ExpectedConfig

\* C10: the result does not depend on what the host passed: invocations
\* called with different argument lists (none, or any command and mode)
\* resolve to structurally equal objects.
C10_InputIndependent ==
    \A i \in Calls, j \in Calls :
        (Resolved(i) /\ Resolved(j) /\ args[i] # args[j]) => Config(i) = Config(j)

C10_Witness ==
    \E i \in Calls, j \in Calls :
        /\ Resolved(i) /\ Resolved(j)
        /\ args[i] = <<>> /\ args[j] # <<>> /\ args[j][1].command = "build"

====
